---------------------------- MODULE Spec2Model ----------------------------
(***************************************************************************)
(* Model of src/webapp/app.js: the single-page front-end that lists chat   *)
(* groups, loads a group's members, keeps a selection set and creates and  *)
(* triggers tag groups over a JSON/HTTP contract.                          *)
(*                                                                         *)
(* The file holds the flow twice.  Lines 1-194 are the complete first      *)
(* copy; lines 194-314 are a second copy whose head is cut off and which   *)
(* re-declares renderTagGroups, triggerTag, toggleMember, selectAllToggle  *)
(* and createTagGroup (and brings loadMembersAndRender / renderMembersGrid *)
(* in place of loadMembers / renderMembers).  The variable `copy` says     *)
(* which of the two declarations of the duplicated handlers is the one     *)
(* bound to the page; it is chosen at Init and never changes.  The second  *)
(* copy's names selectedMembers, $id and setInfo are the first copy's      *)
(* selected, $ and setStatus.                                              *)
(***************************************************************************)
EXTENDS Integers, Sequences, FiniteSets, Bags, TLC

VARIABLES
  copy,           \* 1 or 2: which copy of the duplicated handlers is bound
  groupButtons,   \* chat ids that have an activator in #group-list
  currentChatId,  \* app.js:4
  cachedMembers,  \* app.js:5   sequence of member ids (m.id of each member)
  selected,       \* app.js:6   the Set of selected ids
  cards,          \* #members-list: one record per .member-card
  wired,          \* the panel buttons have their onclick (app.js:134-137)
  panelHidden,    \* #panel carries class 'hidden'
  titleChat,      \* chat whose title #group-title shows
  status,         \* statusEl.innerText
  tgRows,         \* names of the rows shown in #taggroups-list
  tgName,         \* #tg-name value, a sequence of characters
  inflight,       \* bag of the fetches issued and not yet settled
  serverTags,     \* the service: chat -> names of its tag groups
  refetch,        \* map keys answered to the newest tag-group fetch, when
                  \* that fetch is createTagGroup's and has been rendered
  lastAlert,      \* alert() text raised by the step that ran last, or "none"
  unhandled,      \* the step that ran last ended in an unhandled rejection
  hist            \* SpecSel: the last two selection operations

vars == <<copy, groupButtons, currentChatId, cachedMembers, selected, cards,
          wired, panelHidden, titleChat, status, tgRows, tgName, inflight,
          serverTags, refetch, lastAlert, unhandled, hist>>

-----------------------------------------------------------------------------
(* Bounds *)

\* longest member list of the selection specification
MaxMembers == 2
\* most fetches in flight at once
MaxInFlight == 2

-----------------------------------------------------------------------------
(* JavaScript values that occur as member ids and in the selection Set *)

JNum(n) == [t |-> "number", n |-> n, s |-> ""]
JStr(s) == [t |-> "string", n |-> 0, s |-> s]
UNDEF == [t |-> "undefined", n |-> 0, s |-> ""]
NAN == [t |-> "NaN", n |-> 0, s |-> ""]

\* ids a member of the JSON response may carry: numbers, zero, no id at
\* all, and a numeric id sent as a string
MemberIds == {JNum(1), JNum(2), JNum(0), UNDEF, JStr("1")}

\* JavaScript truthiness, as used by `m.id || ''` and `if(id)`
Truthy(x) ==
  CASE x.t = "number" -> x.n # 0
    [] x.t = "string" -> x.s # ""
    [] OTHER -> FALSE

\* decimal numerals of the numbers the model uses
Numerals == {<<0, "0">>, <<1, "1">>, <<2, "2">>, <<3, "3">>, <<4, "4">>}

\* String(x) for the values assigned to card.dataset.id
JSString(x) ==
  CASE x.t = "number" -> (CHOOSE p \in Numerals : p[1] = x.n)[2]
    [] x.t = "string" -> x.s
    [] x.t = "undefined" -> "undefined"
    [] OTHER -> "NaN"

\* card.dataset.id = m.id || ''
DatasetId(id) == IF Truthy(id) THEN JSString(id) ELSE ""

\* parseInt(c.dataset.id)
ParseInt(s) ==
  IF \E p \in Numerals : p[2] = s
    THEN JNum((CHOOSE p \in Numerals : p[2] = s)[1])
    ELSE NAN

-----------------------------------------------------------------------------
(* Rendering and the selection operations, as functions of the state *)

\* the cards renderMembers builds: none carries class 'selected'
RenderCards(members) ==
  [i \in 1..Len(members) |->
     [id |-> members[i], dataset |-> DatasetId(members[i]), sel |-> FALSE]]

\* toggleMember(card, id): the Set after the click on card i
ToggleSelected(cs, sel, i) ==
  IF ~cs[i].sel THEN sel \cup {cs[i].id} ELSE sel \ {cs[i].id}

\* toggleMember(card, id): the cards after card.classList.toggle('selected')
ToggleCards(cs, i) == [cs EXCEPT ![i].sel = ~cs[i].sel]

\* cachedMembers after a JSON response that is not an array (an error
\* object, say): `cachedMembers = members` stores it as it is
NotArray == <<[t |-> "object", n |-> 0, s |-> ""]>>

\* cachedMembers.length: undefined for such an object, which no Set size
\* equals
Length(members) == IF members = NotArray THEN 0 - 1 ELSE Len(members)

\* a select branch that stops after the first card
SelectAllAddsFirstCard(cp, cs) ==
  {ParseInt(cs[i].dataset) : i \in
     {j \in 1..Len(cs) : j = 1 /\ (cp = 2 \/ Truthy(ParseInt(cs[j].dataset)))}}

\* the values the select branch adds: the first copy skips falsy results of
\* parseInt, the second copy adds every result
SelectAllAdds(cp, cs) ==
  {ParseInt(cs[i].dataset) : i \in
     {j \in 1..Len(cs) : cp = 2 \/ Truthy(ParseInt(cs[j].dataset))}}

\* selectAllToggle whose unselect branch forgets selected.clear()
SelectAllSelectedNoClear(cp, members, cs, sel) ==
  IF Cardinality(sel) = Length(members)
    THEN sel
    ELSE sel \cup SelectAllAdds(cp, cs)

\* selectAllToggle: the Set afterwards
SelectAllSelected(cp, members, cs, sel) ==
  IF Cardinality(sel) = Length(members)
    THEN {}
    ELSE sel \cup SelectAllAdds(cp, cs)

\* selectAllToggle: the cards afterwards
SelectAllCards(members, cs, sel) ==
  IF Cardinality(sel) = Length(members)
    THEN [i \in 1..Len(cs) |-> [cs[i] EXCEPT !.sel = FALSE]]
    ELSE [i \in 1..Len(cs) |-> [cs[i] EXCEPT !.sel = TRUE]]

-----------------------------------------------------------------------------
(* The service behind the HTTP contract *)

NULL == "null"
Chats == {"A", "B"}

\* GET /api/members/{chatId}: the member ids of each chat
ServerMembers(c) ==
  IF c = "A" THEN <<JNum(1)>> ELSE <<JNum(2), JNum(0)>>

\* what the operator may have typed into #tg-name
NameInputs == {<< >>, <<" ">>, <<" ", "a", " ">>}

\* the tag-group names those inputs can create
TagNames == {<<"a">>}

\* String.prototype.trim on a sequence of characters
RECURSIVE TrimLeft(_)
TrimLeft(s) ==
  IF s # << >> /\ Head(s) = " " THEN TrimLeft(Tail(s)) ELSE s

RECURSIVE TrimRight(_)
TrimRight(s) ==
  IF s # << >> /\ s[Len(s)] = " "
    THEN TrimRight(SubSeq(s, 1, Len(s) - 1))
    ELSE s

\* createTagGroup reading the input without .trim()
TrimForgotten(s) == s

Trim(s) == TrimRight(TrimLeft(s))

-----------------------------------------------------------------------------
(* Fetches in flight.  Responses arrive in any order, so the fetches form a *)
(* bag.  The service answers a GET /api/taggroups from its state when the   *)
(* request is issued and the answer travels for any time: snap holds the    *)
(* keys of the answered map.  A POST /api/taggroups is stored by the time   *)
(* its fetch resolves.  older: a later GET /api/taggroups was issued while  *)
(* this one was in flight.                                                  *)

Req(kind, chat, origin, name, members) ==
  [kind |-> kind, chat |-> chat, origin |-> origin, name |-> name,
   members |-> members, snap |-> {}, older |-> FALSE]

Pending == BagToSet(inflight)

InFlight(kind) == {r \in Pending : r.kind = kind}

Issue(q, r) == q (+) SetToBag({r})

Settle(q, r) == q (-) SetToBag({r})

\* the bag once a new GET /api/taggroups is issued: those in flight are older
RECURSIVE Aged(_, _)
Aged(q, todo) ==
  IF todo = {} THEN q
  ELSE LET r == CHOOSE x \in todo : TRUE
           n == CopiesIn(r, q)
           rest == [x \in DOMAIN q \ {r} |-> q[x]]
           old == [r EXCEPT !.older = TRUE]
       IN Aged(rest (+) [x \in {old} |-> n], todo \ {r})

IssueTagGroups(q, chat, origin, keys) ==
  Issue(Aged(q, {r \in BagToSet(q) : r.kind = "taggroups" /\ ~r.older}),
        [Req("taggroups", chat, origin, << >>, {})
           EXCEPT !.snap = keys])

\* no re-fetch of createTagGroup is the newest rendered tag-group fetch
NoRefetch == [rendered |-> FALSE, keys |-> {}]

\* setStatus texts of the two copies
StatusLoading ==
  IF copy = 1 THEN "Loading members and tag groups..."
              ELSE "Loading tag groups and members..."
StatusReady ==
  IF copy = 1 THEN "Select members and create tag"
              ELSE "Select members and click Create"

\* loadMembers starts with setStatus('Fetching members...');
\* loadMembersAndRender does not touch the status before the fetch
StatusFetching == IF copy = 1 THEN "Fetching members..." ELSE status

\* a step that raises no alert and rejects nothing
Quiet == lastAlert' = "none" /\ unhandled' = FALSE

-----------------------------------------------------------------------------
(* Initial state: the module is evaluated and the load listener has run    *)
(* loadGroups up to its first await.                                        *)

Init ==
  /\ copy \in {1, 2}
  /\ groupButtons = {}
  /\ currentChatId = NULL
  /\ cachedMembers = << >>
  /\ selected = {}
  /\ cards = << >>
  /\ wired = FALSE
  /\ panelHidden = TRUE
  /\ titleChat = NULL
  /\ status = "Loading groups..."
  /\ tgRows = {}
  /\ tgName = << >>
  /\ inflight = SetToBag({Req("groups", NULL, "boot", << >>, {})})
  /\ serverTags = [c \in Chats |-> {}]
  /\ refetch = NoRefetch
  /\ lastAlert = "none"
  /\ unhandled = FALSE
  /\ hist = << >>

-----------------------------------------------------------------------------
(* loadGroups, after its fetch settles *)

\* the response is {groups: [...]}: one button per group
LoadGroupsOk(r) ==
  /\ r \in InFlight("groups")
  /\ inflight' = Settle(inflight, r)
  /\ groupButtons' = Chats
  /\ status' = "Tap a group to manage"
  /\ Quiet
  /\ UNCHANGED <<copy, currentChatId, cachedMembers, selected, cards, wired,
                 panelHidden, titleChat, tgRows, tgName, serverTags, refetch,
                 hist>>

\* the fetch rejects, or the JSON has no groups array (json.groups.forEach
\* throws after the list was emptied): the catch sets the failure status
LoadGroupsFail(r) ==
  /\ r \in InFlight("groups")
  /\ inflight' = Settle(inflight, r)
  /\ groupButtons' = {}
  /\ status' = "Failed to load groups"
  /\ Quiet
  /\ UNCHANGED <<copy, currentChatId, cachedMembers, selected, cards, wired,
                 panelHidden, titleChat, tgRows, tgName, serverTags, refetch,
                 hist>>

\* the JSON has a groups array with an entry that cannot be rendered (null,
\* say) after the first group: the buttons built before the throw stay in
\* the list and the catch sets the failure status
LoadGroupsPartial(r) ==
  /\ r \in InFlight("groups")
  /\ inflight' = Settle(inflight, r)
  /\ groupButtons' = {"A"}
  /\ status' = "Failed to load groups"
  /\ Quiet
  /\ UNCHANGED <<copy, currentChatId, cachedMembers, selected, cards, wired,
                 panelHidden, titleChat, tgRows, tgName, serverTags, refetch,
                 hist>>

-----------------------------------------------------------------------------
(* openGroup, up to its first await (inside renderTagGroups) *)

OpenGroup(c) ==
  /\ c \in groupButtons
  /\ BagCardinality(inflight) < MaxInFlight
  /\ currentChatId' = c
  /\ panelHidden' = FALSE
  /\ titleChat' = c
  /\ status' = StatusLoading
  /\ inflight' = IssueTagGroups(inflight, c, "open", serverTags[c])
  /\ refetch' = NoRefetch
  /\ Quiet
  /\ UNCHANGED <<copy, groupButtons, cachedMembers, selected, cards, wired,
                 tgRows, tgName, serverTags, hist>>

-----------------------------------------------------------------------------
(* renderTagGroups, after its fetch settles; openGroup goes on to           *)
(* loadMembers, which reads currentChatId when it builds its URL            *)

\* the bag after request r settled and, for openGroup, loadMembers fetched
AfterTagGroups(r, loads) ==
  IF loads
    THEN Issue(Settle(inflight, r),
               Req("members", currentChatId, "open", << >>, {}))
    ELSE Settle(inflight, r)

RenderTagGroupsOk(r) ==
  /\ r \in InFlight("taggroups")
  /\ tgRows' = r.snap
  /\ inflight' = AfterTagGroups(r, r.origin = "open")
  /\ status' = IF r.origin = "open" THEN StatusFetching ELSE status
  /\ refetch' = IF r.origin = "create" /\ ~r.older
                  THEN [rendered |-> TRUE, keys |-> r.snap]
                  ELSE refetch
  /\ Quiet
  /\ UNCHANGED <<copy, groupButtons, currentChatId, cachedMembers, selected,
                 cards, wired, panelHidden, titleChat, tgName, serverTags,
                 hist>>

\* first copy: the catch logs and renderTagGroups returns normally;
\* second copy: the rejection leaves renderTagGroups and ends its caller
TagGroupsFailLoads(r) == copy = 1 /\ r.origin = "open"

RenderTagGroupsFail(r) ==
  /\ r \in InFlight("taggroups")
  /\ inflight' = AfterTagGroups(r, TagGroupsFailLoads(r))
  /\ status' = IF TagGroupsFailLoads(r) THEN StatusFetching ELSE status
  /\ lastAlert' = "none"
  /\ unhandled' = (copy = 2)
  /\ UNCHANGED <<copy, groupButtons, currentChatId, cachedMembers, selected,
                 cards, wired, panelHidden, titleChat, tgRows, tgName,
                 serverTags, refetch, hist>>

-----------------------------------------------------------------------------
(* loadMembers / loadMembersAndRender, after the fetch settles *)

LoadMembersOk(r) ==
  /\ r \in InFlight("members")
  /\ inflight' = Settle(inflight, r)
  /\ cachedMembers' = ServerMembers(r.chat)
  /\ selected' = {}
  /\ cards' = RenderCards(ServerMembers(r.chat))
  /\ wired' = TRUE
  /\ status' = StatusReady
  /\ Quiet
  /\ UNCHANGED <<copy, groupButtons, currentChatId, panelHidden, titleChat,
                 tgRows, tgName, serverTags, refetch, hist>>

LoadMembersFail(r) ==
  /\ r \in InFlight("members")
  /\ inflight' = Settle(inflight, r)
  /\ status' = "Failed to load members"
  /\ Quiet
  /\ UNCHANGED <<copy, groupButtons, currentChatId, cachedMembers, selected,
                 cards, wired, panelHidden, titleChat, tgRows, tgName,
                 serverTags, refetch, hist>>

\* the JSON is not an array: it is cached and the selection reset, then
\* renderMembers empties the grid and members.forEach throws before the
\* buttons are wired; the catch sets the failure status
LoadMembersMalformed(r) ==
  /\ r \in InFlight("members")
  /\ inflight' = Settle(inflight, r)
  /\ cachedMembers' = NotArray
  /\ selected' = {}
  /\ cards' = << >>
  /\ status' = "Failed to load members"
  /\ Quiet
  /\ UNCHANGED <<copy, groupButtons, currentChatId, wired, panelHidden,
                 titleChat, tgRows, tgName, serverTags, refetch, hist>>

-----------------------------------------------------------------------------
(* The panel's controls.  They sit in #panel and take clicks while it is   *)
(* shown; the four buttons get their handlers in renderMembers.             *)

Back ==
  /\ wired /\ ~panelHidden
  /\ panelHidden' = TRUE
  /\ status' = "Back to groups"
  /\ Quiet
  /\ UNCHANGED <<copy, groupButtons, currentChatId, cachedMembers, selected,
                 cards, wired, titleChat, tgRows, tgName, inflight,
                 serverTags, refetch, hist>>

\* refreshBtn is wired by the first copy's renderMembers only
Refresh ==
  /\ copy = 1 /\ wired /\ ~panelHidden
  /\ BagCardinality(inflight) + 2 <= MaxInFlight
  /\ inflight' = Issue(IssueTagGroups(inflight, currentChatId, "refresh",
                                      serverTags[currentChatId]),
                       Req("members", currentChatId, "refresh", << >>, {}))
  /\ status' = "Fetching members..."
  /\ refetch' = NoRefetch
  /\ Quiet
  /\ UNCHANGED <<copy, groupButtons, currentChatId, cachedMembers, selected,
                 cards, wired, panelHidden, titleChat, tgRows, tgName,
                 serverTags, hist>>

\* the state change of a click on card i, shared by the specifications
ToggleMemberStep(i) ==
  /\ i \in 1..Len(cards)
  /\ ~panelHidden
  /\ selected' = ToggleSelected(cards, selected, i)
  /\ cards' = ToggleCards(cards, i)
  /\ Quiet
  /\ UNCHANGED <<copy, groupButtons, currentChatId, cachedMembers, wired,
                 panelHidden, titleChat, status, tgRows, tgName, inflight,
                 serverTags, refetch>>

ToggleMember(i) == ToggleMemberStep(i) /\ UNCHANGED hist

\* the state change of a click on selectAllBtn
SelectAllToggleStep ==
  /\ wired /\ ~panelHidden
  /\ selected' = SelectAllSelected(copy, cachedMembers, cards, selected)
  /\ cards' = SelectAllCards(cachedMembers, cards, selected)
  /\ Quiet
  /\ UNCHANGED <<copy, groupButtons, currentChatId, cachedMembers, wired,
                 panelHidden, titleChat, status, tgRows, tgName, inflight,
                 serverTags, refetch>>

SelectAllToggle == SelectAllToggleStep /\ UNCHANGED hist

\* the operator edits #tg-name
TypeName(v) ==
  /\ ~panelHidden
  /\ v \in NameInputs /\ v # tgName
  /\ tgName' = v
  /\ Quiet
  /\ UNCHANGED <<copy, groupButtons, currentChatId, cachedMembers, selected,
                 cards, wired, panelHidden, titleChat, status, tgRows,
                 inflight, serverTags, refetch, hist>>

-----------------------------------------------------------------------------
(* createTagGroup *)

AlertNoName ==
  IF copy = 1 THEN "Enter a tag group name" ELSE "Enter a name"
AlertCreated ==
  IF copy = 1 THEN "Tag group created" ELSE "Created tag group"
AlertTriggered ==
  IF copy = 1 THEN "Triggered" ELSE "Tag triggered in group"

\* the click on createTgBtn, up to the await of the POST
CreateTagGroup ==
  /\ wired /\ ~panelHidden
  /\ LET name == Trim(tgName) IN
       IF name = << >>
         THEN /\ lastAlert' = AlertNoName
              /\ UNCHANGED inflight
         ELSE IF Cardinality(selected) = 0
           THEN /\ lastAlert' = "Select at least one member"
                /\ UNCHANGED inflight
           ELSE /\ BagCardinality(inflight) < MaxInFlight
                /\ inflight' = Issue(inflight,
                     Req("create", currentChatId, "click", name, selected))
                /\ lastAlert' = "none"
  /\ unhandled' = FALSE
  /\ UNCHANGED <<copy, groupButtons, currentChatId, cachedMembers, selected,
                 cards, wired, panelHidden, titleChat, status, tgRows, tgName,
                 serverTags, refetch, hist>>

\* the POST resolved: alert, clear the input, renderTagGroups to its fetch
CreateTagGroupOk(r) ==
  /\ r \in InFlight("create")
  /\ serverTags' = [serverTags EXCEPT ![r.chat] = @ \cup {r.name}]
  /\ lastAlert' = AlertCreated
  /\ unhandled' = FALSE
  /\ tgName' = << >>
  /\ inflight' = IssueTagGroups(Settle(inflight, r), currentChatId, "create",
                                serverTags'[currentChatId])
  /\ refetch' = NoRefetch
  /\ UNCHANGED <<copy, groupButtons, currentChatId, cachedMembers, selected,
                 cards, wired, panelHidden, titleChat, status, tgRows, hist>>

\* the POST rejected: the first copy alerts from its catch, the second copy
\* has no try and its promise rejects unhandled
CreateFailAlert == IF copy = 1 THEN "Failed to create" ELSE "none"

CreateTagGroupFail(r) ==
  /\ r \in InFlight("create")
  /\ inflight' = Settle(inflight, r)
  /\ lastAlert' = CreateFailAlert
  /\ unhandled' = (copy = 2)
  /\ UNCHANGED <<copy, groupButtons, currentChatId, cachedMembers, selected,
                 cards, wired, panelHidden, titleChat, status, tgRows, tgName,
                 serverTags, refetch, hist>>

-----------------------------------------------------------------------------
(* triggerTag *)

\* the click on a row's Trigger button, up to the await of the POST
TriggerTag(name) ==
  /\ ~panelHidden
  /\ name \in tgRows
  /\ BagCardinality(inflight) < MaxInFlight
  /\ inflight' = Issue(inflight,
                       Req("trigger", currentChatId, "click", name, {}))
  /\ Quiet
  /\ UNCHANGED <<copy, groupButtons, currentChatId, cachedMembers, selected,
                 cards, wired, panelHidden, titleChat, status, tgRows, tgName,
                 serverTags, refetch, hist>>

TriggerTagOk(r) ==
  /\ r \in InFlight("trigger")
  /\ inflight' = Settle(inflight, r)
  /\ lastAlert' = AlertTriggered
  /\ unhandled' = FALSE
  /\ UNCHANGED <<copy, groupButtons, currentChatId, cachedMembers, selected,
                 cards, wired, panelHidden, titleChat, status, tgRows, tgName,
                 serverTags, refetch, hist>>

TriggerFailAlert == IF copy = 1 THEN "Trigger failed" ELSE "none"

TriggerTagFail(r) ==
  /\ r \in InFlight("trigger")
  /\ inflight' = Settle(inflight, r)
  /\ lastAlert' = TriggerFailAlert
  /\ unhandled' = (copy = 2)
  /\ UNCHANGED <<copy, groupButtons, currentChatId, cachedMembers, selected,
                 cards, wired, panelHidden, titleChat, status, tgRows, tgName,
                 serverTags, refetch, hist>>

-----------------------------------------------------------------------------
(* Navigation and loading: the group list, opening groups, the two loads   *)
(* of a group, back, refresh and the selection clicks.                      *)

Next ==
  \/ \E r \in Pending : LoadGroupsOk(r)
  \/ \E r \in Pending : LoadGroupsFail(r)
  \/ \E r \in Pending : LoadGroupsPartial(r)
  \/ \E c \in Chats : OpenGroup(c)
  \/ \E r \in Pending : RenderTagGroupsOk(r)
  \/ \E r \in Pending : RenderTagGroupsFail(r)
  \/ \E r \in Pending : LoadMembersOk(r)
  \/ \E r \in Pending : LoadMembersFail(r)
  \/ \E r \in Pending : LoadMembersMalformed(r)
  \/ Back
  \/ Refresh
  \/ \E i \in 1..MaxMembers : ToggleMember(i)
  \/ SelectAllToggle

Spec == Init /\ [][Next]_vars

-----------------------------------------------------------------------------
(* Tag groups: opening groups and loading them, selecting members, typing  *)
(* a name, creating a tag group and the re-fetch that follows.              *)

TagNext ==
  \/ \E r \in Pending : LoadGroupsOk(r)
  \/ \E c \in Chats : OpenGroup(c)
  \/ \E r \in Pending : RenderTagGroupsOk(r)
  \/ \E r \in Pending : LoadMembersOk(r)
  \/ \E i \in 1..MaxMembers : ToggleMember(i)
  \/ \E v \in NameInputs : TypeName(v)
  \/ CreateTagGroup
  \/ \E r \in Pending : CreateTagGroupOk(r)
  \/ \E r \in Pending : CreateTagGroupFail(r)

SpecTag == Init /\ [][TagNext]_vars

-----------------------------------------------------------------------------
(* The selection operations on their own: any member list, freshly rendered *)
(* by a member load, then any sequence of card clicks and select-all        *)
(* clicks.  hist keeps the last two operations with the Set before each.    *)

RECURSIVE SeqsUpTo(_, _)
SeqsUpTo(S, n) ==
  IF n = 0 THEN {<< >>}
  ELSE LET shorter == SeqsUpTo(S, n - 1) IN
    shorter \cup {Append(q, x) : q \in shorter, x \in S}

Push(h, e) == IF Len(h) < 2 THEN Append(h, e) ELSE <<h[2], e>>

SelInit ==
  /\ copy \in {1, 2}
  /\ groupButtons = Chats
  /\ currentChatId = "A"
  /\ cachedMembers \in SeqsUpTo(MemberIds, MaxMembers)
  /\ selected = {}
  /\ cards = RenderCards(cachedMembers)
  /\ wired = TRUE
  /\ panelHidden = FALSE
  /\ titleChat = "A"
  /\ status = StatusReady
  /\ tgRows = {}
  /\ tgName = << >>
  /\ inflight = EmptyBag
  /\ serverTags = [c \in Chats |-> {}]
  /\ refetch = NoRefetch
  /\ lastAlert = "none"
  /\ unhandled = FALSE
  /\ hist = << >>

SelToggleMember(i) ==
  /\ ToggleMemberStep(i)
  /\ hist' = Push(hist, [op |-> "toggleMember", card |-> i, before |-> selected])

SelSelectAllToggle ==
  /\ SelectAllToggleStep
  /\ hist' = Push(hist, [op |-> "selectAllToggle", card |-> 0, before |-> selected])

SelNext ==
  \/ \E i \in 1..MaxMembers : SelToggleMember(i)
  \/ SelSelectAllToggle

SpecSel == SelInit /\ [][SelNext]_vars

-----------------------------------------------------------------------------
(* Triggering: the service already holds a tag group for chat A and none   *)
(* for chat B when the page loads; the user opens groups and presses the   *)
(* Trigger buttons of the rows on display.                                 *)

TrigInit ==
  /\ copy \in {1, 2}
  /\ groupButtons = {}
  /\ currentChatId = NULL
  /\ cachedMembers = << >>
  /\ selected = {}
  /\ cards = << >>
  /\ wired = FALSE
  /\ panelHidden = TRUE
  /\ titleChat = NULL
  /\ status = "Loading groups..."
  /\ tgRows = {}
  /\ tgName = << >>
  /\ inflight = SetToBag({Req("groups", NULL, "boot", << >>, {})})
  /\ serverTags = [c \in Chats |-> IF c = "A" THEN TagNames ELSE {}]
  /\ refetch = NoRefetch
  /\ lastAlert = "none"
  /\ unhandled = FALSE
  /\ hist = << >>

TrigNext ==
  \/ \E r \in Pending : LoadGroupsOk(r)
  \/ \E c \in Chats : OpenGroup(c)
  \/ \E r \in Pending : RenderTagGroupsOk(r)
  \/ \E r \in Pending : LoadMembersOk(r)
  \/ \E name \in TagNames : TriggerTag(name)
  \/ \E r \in Pending : TriggerTagOk(r)
  \/ \E r \in Pending : TriggerTagFail(r)

SpecTrig == TrigInit /\ [][TrigNext]_vars

-----------------------------------------------------------------------------
(* Every fetch completes: a fetch of each kind that stays in flight is     *)
(* eventually settled, by a response or by a rejection.  The user's clicks *)
(* carry no fairness.                                                      *)

GroupsCompletes ==
  \E r \in Pending :
    LoadGroupsOk(r) \/ LoadGroupsFail(r) \/ LoadGroupsPartial(r)

TagGroupsCompletes ==
  \E r \in Pending : RenderTagGroupsOk(r) \/ RenderTagGroupsFail(r)

MembersCompletes ==
  \E r \in Pending :
    LoadMembersOk(r) \/ LoadMembersFail(r) \/ LoadMembersMalformed(r)

SpecLive ==
  /\ Init /\ [][Next]_vars
  /\ WF_vars(GroupsCompletes)
  /\ WF_vars(TagGroupsCompletes)
  /\ WF_vars(MembersCompletes)

-----------------------------------------------------------------------------
(* Vocabulary of the properties *)

IdsOf(members) == {members[i] : i \in 1..Len(members)}

TruthyIdsOf(members) == {x \in IdsOf(members) : Truthy(x)}

\* requests in the bag after a step that were not in it before the step
Issued == {r \in BagToSet(inflight') : CopiesIn(r, inflight') > CopiesIn(r, inflight)}

\* a name input that is empty or holds white space only
Blank(v) == \A i \in 1..Len(v) : v[i] = " "

\* the last two selection operations were both `op`
LastTwo(op) == Len(hist) = 2 /\ hist[1].op = op /\ hist[2].op = op

\* every id is a non-zero number and no two members share an id
PlainIds(members) ==
  /\ \A i \in 1..Len(members) : members[i].t = "number" /\ members[i].n # 0
  /\ \A i, j \in 1..Len(members) : members[i] = members[j] => i = j

-----------------------------------------------------------------------------
(* C1..C10 *)

\* C1: every element of `selected` is the id of a member of the list the
\* service holds for the currently open group (currentChatId).
C1_SelectedWithinOpenGroup ==
  currentChatId # NULL => selected \subseteq IdsOf(ServerMembers(currentChatId))

\* C2: once every fetch has settled and the last member load to finish
\* succeeded, the cached and displayed member list is the one the service
\* returns for the chat whose title is shown.
C2_MembersMatchTitle ==
  (BagCardinality(inflight) = 0 /\ titleChat # NULL /\ status = StatusReady)
    => /\ cachedMembers = ServerMembers(titleChat)
       /\ cards = [i \in 1..Len(cards) |->
                     [RenderCards(ServerMembers(titleChat))[i]
                        EXCEPT !.sel = cards[i].sel]]

\* C3: directly after openGroup has set currentChatId to another chat,
\* `selected` is empty and cachedMembers is not the list of a chat other
\* than the one just opened.
C3_OpenGroupResets ==
  [][\A c \in Chats :
       (OpenGroup(c) /\ c # currentChatId)
         => /\ selected' = {}
            /\ \A d \in Chats \ {c} : cachedMembers' # ServerMembers(d)]_vars

\* C4: openGroup issues the member fetch together with the tag-group fetch:
\* directly after openGroup, GET /api/members/{chatId} is in flight without
\* any response having been awaited.
C4_OpenGroupIssuesBoth ==
  [][\A c \in Chats :
       OpenGroup(c)
         => /\ \E r \in Issued : r.kind = "taggroups" /\ r.chat = c
            /\ \E r \in Issued : r.kind = "members" /\ r.chat = c]_vars

\* C5 as stated: after two selectAllToggle calls in a row the selection set
\* equals what it was before the first of them, for every member list and
\* every starting selection.
C5_SelectAllTwice_Original ==
  LastTwo("selectAllToggle") => selected = hist[1].before

\* C5 amended: after two selectAllToggle calls in a row the selection set
\* equals what it was before the first of them, when the member ids are
\* distinct non-zero integers and the starting selection is empty or holds
\* every member id.
C5_SelectAllTwice ==
  ( /\ LastTwo("selectAllToggle")
    /\ PlainIds(cachedMembers)
    /\ hist[1].before \in {{}, IdsOf(cachedMembers)} )
    => selected = hist[1].before

\* C5 witness: two ids, both selected by hand, then select-all pressed twice
C5_Witness ==
  /\ LastTwo("selectAllToggle")
  /\ PlainIds(cachedMembers)
  /\ Len(cachedMembers) = 2
  /\ hist[1].before = IdsOf(cachedMembers)
  /\ hist[2].before = {}

\* C6: after toggleMember was called twice in a row on the same card, the
\* selection set equals what it was before the first of the two calls.
C6_ToggleTwice ==
  (LastTwo("toggleMember") /\ hist[1].card = hist[2].card)
    => selected = hist[1].before

\* C7: the select branch of selectAllToggle adds no value derived from a
\* member whose id is absent, zero or otherwise falsy; for a list whose ids
\* are numbers or absent, what it adds is exactly the truthy member ids.
C7_SelectAllSkipsFalsy ==
  ( /\ hist # << >>
    /\ hist[Len(hist)].op = "selectAllToggle"
    /\ Cardinality(hist[Len(hist)].before) # Len(cachedMembers) )
    => LET before == hist[Len(hist)].before
           added == selected \ before
       IN /\ \A i \in 1..Len(cachedMembers) :
               ~Truthy(cachedMembers[i])
                 => ParseInt(DatasetId(cachedMembers[i])) \notin added
          /\ (\A i \in 1..Len(cachedMembers) :
                cachedMembers[i].t \in {"number", "undefined"})
               => added = TruthyIdsOf(cachedMembers) \ before

\* C8: createTagGroup issues no request and leaves currentChatId,
\* cachedMembers, the selection set and the name input unchanged when the
\* name is empty or white space only or the selection set is empty; a
\* POST /api/taggroups is issued only by createTagGroup with a name that is
\* not blank and a selection that is not empty, and carries the trimmed name.
C8_CreateValidates ==
  [][/\ (CreateTagGroup /\ (Blank(tgName) \/ selected = {}))
          => /\ inflight' = inflight
             /\ UNCHANGED <<currentChatId, cachedMembers, selected, tgName>>
     /\ \A r \in Issued :
          r.kind = "create"
            => /\ ~Blank(tgName) /\ selected # {}
               /\ r.name # << >>
               /\ Head(r.name) # " " /\ r.name[Len(r.name)] # " "]_vars

\* C8 witness: createTagGroup has just rejected a name of white space only
\* while members were selected
C8_Witness ==
  /\ lastAlert = AlertNoName
  /\ tgName = <<" ">>
  /\ selected # {}
  /\ InFlight("create") = {}

\* C9: once createTagGroup's re-fetch has been rendered and no tag-group
\* fetch is in flight (none was issued after the re-fetch), the displayed
\* tag-group names are the keys of the map the re-fetch returned.
C9_RefetchDisplayed ==
  (refetch.rendered /\ InFlight("taggroups") = {}) => tgRows = refetch.keys

\* C10: when the create request fails, createTagGroup raises a failure
\* alert and no success alert, leaves the name input and the selection set
\* as they were, and issues no tag-group fetch.
C10_CreateFailure ==
  [][\A r \in BagToSet(inflight) :
       CreateTagGroupFail(r)
         => /\ lastAlert' \notin {"none", AlertCreated}
            /\ tgName' = tgName
            /\ selected' = selected
            /\ Issued = {}]_vars

-----------------------------------------------------------------------------
(* C11..C19 *)

\* C11: directly after the back button's handler the selection set is empty.
C11_BackClearsSelection == [][Back => selected' = {}]_vars

\* C12: the failure of any network operation (list groups, render tag
\* groups, load members, create tag group, trigger tag) is surfaced by a
\* failure status line or by an alert, and rejects nothing unhandled.
C12_FailuresSurfaced ==
  [][\A r \in BagToSet(inflight) :
       (\/ LoadGroupsFail(r) \/ RenderTagGroupsFail(r) \/ LoadMembersFail(r)
        \/ CreateTagGroupFail(r) \/ TriggerTagFail(r))
         => /\ ~unhandled'
            /\ \/ lastAlert' # "none"
               \/ /\ status' # status
                  /\ status' \in {"Failed to load groups",
                                  "Failed to load members"}]_vars

\* C13: a successful member load makes cachedMembers the response and
\* empties the selection; a failed member load sets the failure status and
\* leaves cachedMembers, the selection and the grid as they were.
C13_MemberLoad ==
  [][\A r \in BagToSet(inflight) :
       /\ LoadMembersOk(r)
            => cachedMembers' = ServerMembers(r.chat) /\ selected' = {}
       /\ (LoadMembersFail(r) \/ LoadMembersMalformed(r))
            => /\ status' = "Failed to load members"
               /\ cachedMembers' = cachedMembers
               /\ selected' = selected
               /\ cards' = cards]_vars

\* C14: the members of every POST /api/taggroups in flight are ids of the
\* member list the service holds for the chat_id of that request.
C14_CreateMembersOfChat ==
  \A r \in InFlight("create") : r.members \subseteq IdsOf(ServerMembers(r.chat))

\* C15: the tag_name of every POST /api/trigger in flight is a key of the
\* tag-group map the service holds for the chat_id of that request.
C15_TriggerNameOfChat ==
  \A r \in InFlight("trigger") : r.name \in serverTags[r.chat]

\* C16: a card on display is marked selected exactly when the id of its
\* member is in the selection set.
C16_MarkMatchesSelection ==
  \A i \in 1..Len(cards) :
    cards[i].sel <=> cards[i].id \in selected

\* C17 as stated, read on the first copy: selectAllToggle empties the
\* selection exactly when every cached member's id is in it, and otherwise
\* leaves it equal to the set of truthy cached member ids; after two presses
\* in a row on a non-empty list one of the two states around the second
\* press is all-selected and the other is empty.
C17_SelectAllDecides_Original ==
  copy = 1 =>
    /\ (hist # << >> /\ hist[Len(hist)].op = "selectAllToggle")
         => IF IdsOf(cachedMembers) \subseteq hist[Len(hist)].before
              THEN selected = {}
              ELSE selected = TruthyIdsOf(cachedMembers)
    /\ (LastTwo("selectAllToggle") /\ cachedMembers # << >>)
         => \/ hist[2].before = {} /\ IdsOf(cachedMembers) \subseteq selected
            \/ IdsOf(cachedMembers) \subseteq hist[2].before /\ selected = {}

\* C17 amended: when the member ids are distinct non-zero integers,
\* selectAllToggle empties the selection exactly when every cached member's
\* id is in it, and otherwise leaves it equal to the set of all cached
\* member ids; after two presses in a row on a non-empty list one of the
\* two states around the second press is all-selected and the other is
\* empty.
C17_SelectAllDecides ==
  PlainIds(cachedMembers) =>
    /\ (hist # << >> /\ hist[Len(hist)].op = "selectAllToggle")
         => IF hist[Len(hist)].before = IdsOf(cachedMembers)
              THEN selected = {}
              ELSE selected = IdsOf(cachedMembers)
    /\ (LastTwo("selectAllToggle") /\ cachedMembers # << >>)
         => \/ hist[2].before = {} /\ selected = IdsOf(cachedMembers)
            \/ hist[2].before = IdsOf(cachedMembers) /\ selected = {}

\* C17 witness: two ids, one selected by hand, then select-all pressed twice:
\* the first press completes the selection and the second empties it
C17_Witness ==
  /\ LastTwo("selectAllToggle")
  /\ PlainIds(cachedMembers)
  /\ Len(cachedMembers) = 2
  /\ Cardinality(hist[1].before) = 1
  /\ hist[2].before = IdsOf(cachedMembers)
  /\ selected = {}

\* C18: when every fetch completes, a status showing openGroup's loading
\* text is followed by a status that leaves it (the member load started,
\* succeeded or failed).
C18_OpenGroupLoads == (status = StatusLoading) ~> (status # StatusLoading)

\* C19: when loading the group list fails, by a rejected request or by a
\* response that cannot be rendered, the failure status is set, the group
\* list holds no button and no request is issued.
C19_GroupsFailure ==
  [][\A r \in BagToSet(inflight) :
       (LoadGroupsFail(r) \/ LoadGroupsPartial(r))
         => /\ status' = "Failed to load groups"
            /\ groupButtons' = {}
            /\ Issued = {}]_vars

=============================================================================
